---- MODULE Spec2Model ----
(***************************************************************************)
(* Model of the dcp_downloader pipeline: the mail walker                   *)
(* (download_emails.py), the batch processor (download_links.py), the      *)
(* solution downloader (download_solutions.py), the schema adjustment      *)
(* (adjust_data.py) and the pickle state store (download_helper.py).       *)
(*                                                                         *)
(* Strings are sequences of tokens, a token being a TLA+ string: a symbol  *)
(* ("#", "[", "]"), a digit ("0".."9"), a word ("Hard") or the name of a   *)
(* URL ("U1").  A Python value that may be None is a sequence of length at *)
(* most one: <<>> is None and <<v>> is the value v.                        *)
(***************************************************************************)
EXTENDS Integers, Sequences, FiniteSets, TLC

\* ---------------------------------------------------------------- bounds
NumItems == 3
MaxClock == 4
MaxLimit == 1
MaxResults == 2
MaxSubject == 5
MaxRuns == 3
MaxPages == 3
MaxWalkTime == 2

\* ------------------------------------------------------- generic helpers
None == <<>>
Some(v) == <<v>>

\* Python truthiness of an optional string: None and '' are both falsy.
Falsy(o) == o = None \/ o[1] = <<>>

Range(s) == {s[i] : i \in 1..Len(s)}

Min(S) == CHOOSE x \in S : \A y \in S : x <= y
Max(S) == CHOOSE x \in S : \A y \in S : x >= y

\* The subsequence of s whose elements satisfy membership in K.
RECURSIVE Filter(_, _)
Filter(s, K) ==
    IF s = <<>> THEN <<>>
    ELSE (IF Head(s) \in K THEN <<Head(s)>> ELSE <<>>) \o Filter(Tail(s), K)

\* All orderings of a finite set, as sequences without repetition.
RECURSIVE Perms(_)
Perms(S) ==
    IF S = {} THEN {<<>>}
    ELSE UNION {{<<x>> \o p : p \in Perms(S \ {x})} : x \in S}

\* The first n elements of s (all of s when it is shorter).
Take(s, n) == SubSeq(s, 1, IF n < Len(s) THEN n ELSE Len(s))

\* ------------------------------------------------------ subject parsing
Digits == {"0", "1", "2", "3", "4", "5", "6", "7", "8", "9"}
DigitVal(t) ==
    CASE t = "0" -> 0 [] t = "1" -> 1 [] t = "2" -> 2 [] t = "3" -> 3
      [] t = "4" -> 4 [] t = "5" -> 5 [] t = "6" -> 6 [] t = "7" -> 7
      [] t = "8" -> 8 [] t = "9" -> 9

\* int() of a digit string.
RECURSIVE IntOf(_)
IntOf(ds) ==
    IF ds = <<>> THEN 0
    ELSE 10 * IntOf(SubSeq(ds, 1, Len(ds) - 1)) + DigitVal(ds[Len(ds)])

\* re.search(r'#\d+', s): the positions where a match can start.
ProbStarts(s) == {i \in 1..Len(s) : s[i] = "#" /\ i < Len(s) /\ s[i + 1] \in Digits}
\* The greedy end of the digit run that starts right after position i.
DigitRunEnd(s, i) ==
    Max({j \in (i + 1)..Len(s) : \A k \in (i + 1)..j : s[k] \in Digits})

\* re.search(r'\[.+\]', s): leftmost "[" that has a "]" at least two
\* places to its right, extended greedily to the last such "]".
DiffStarts(s) ==
    {i \in 1..Len(s) : s[i] = "[" /\ \E j \in (i + 2)..Len(s) : s[j] = "]"}
DiffEnd(s, i) == Max({j \in (i + 2)..Len(s) : s[j] = "]"})

StripBrackets(s) == Filter(s, Range(s) \ {"[", "]"})

Easy == <<"Easy">>

\* Variant: a subject without a bracket group contributes nothing.
ParseSubject_TagRequired(s) ==
    IF ProbStarts(s) = {} \/ DiffStarts(s) = {} THEN None
    ELSE LET i == Min(ProbStarts(s))
             b == Min(DiffStarts(s))
         IN Some([id |-> IntOf(SubSeq(s, i + 1, DigitRunEnd(s, i))),
                  difficulty |-> StripBrackets(SubSeq(s, b, DiffEnd(s, b)))])

\* The (id, difficulty) that one subject contributes, or None.
ParseSubject(s) ==
    IF ProbStarts(s) = {} THEN None
    ELSE LET i == Min(ProbStarts(s))
             pid == IntOf(SubSeq(s, i + 1, DigitRunEnd(s, i)))
             diff == IF DiffStarts(s) = {} THEN Easy
                     ELSE LET b == Min(DiffStarts(s))
                          IN StripBrackets(SubSeq(s, b, DiffEnd(s, b)))
         IN Some([id |-> pid, difficulty |-> diff])

\* -------------------------------------------------- the mail service
\* The messages of the mailbox.  A message is immutable: fetching the same
\* identifier again returns the same subject and the same text part.
Items == 1..NumItems

UrlNames == {"U1", "U2", "U3", "U4"}

\* Subject header of message i; that of message 2 is the empty string.
MailSubject(i) ==
    CASE i % 4 = 1 -> Some(<<"Problem", "#", "1", "[", "Hard", "]">>)
      [] i % 4 = 2 -> Some(<<>>)
      [] i % 4 = 3 -> Some(<<"Problem", "#", "1">>)
      [] OTHER     -> Some(<<"Problem", "#", "1", "2", "[", "Medium", "]">>)

\* The single text/plain part of message i, None when it has none.
MailText(i) ==
    CASE i % 4 = 1 -> Some(<<"see", "[", "U1", "]", "and", "[", "U2", "]">>)
      [] i % 4 = 2 -> Some(<<"[", "U3", "]", "[", "note", "]", "[", "U4", "]">>)
      [] i % 4 = 3 -> None
      [] OTHER     -> Some(<<"[", "U1", "]">>)

\* Second at which message i arrives in the mailbox.
Arrival(i) == i

\* Trailing path segment of each URL: U1 and U3 are two links to the
\* solution of problem 1 that differ in their token, U2 has the shape
\* host/solution?x=1&token=abc, whose path ends in the word "solution".
UrlSeg(u) ==
    CASE u = "U1" -> <<"1">>
      [] u = "U2" -> <<"solution">>
      [] u = "U3" -> <<"1">>
      [] OTHER    -> <<"1", "2">>

\* Whether the query of the URL carries a token parameter.
UrlHasToken(u) == u # "U4"

\* Outcomes of one content fetch.
FetchOutcomes == {"ok", "not_found", "too_many_parts", "timeout"}

\* Outcomes of one call of the content API.
ApiOutcomes == {"json", "not_json"}

\* --------------------------------------------------- link extraction
\* re.findall(r'\[.+?\]', s) scanning from position p: the bracket groups,
\* left to right, each ending at the first "]" at least two places after
\* its "[".
GroupStarts(s, p) ==
    {i \in p..Len(s) : s[i] = "[" /\ \E j \in (i + 2)..Len(s) : s[j] = "]"}

RECURSIVE FindGroups(_, _)
FindGroups(s, p) ==
    IF GroupStarts(s, p) = {} THEN <<>>
    ELSE LET i == Min(GroupStarts(s, p))
             j == Min({k \in (i + 2)..Len(s) : s[k] = "]"})
         IN <<SubSeq(s, i, j)>> \o FindGroups(s, j + 1)

\* re.search('dailycodingproblem.com/solution', l)
HasSolutionMarker(g) == Range(g) \cap UrlNames # {}

get_solution_links_from_text(message) ==
    {StripBrackets(g) : g \in {h \in Range(FindGroups(message, 1)) : HasSolutionMarker(h)}}

\* All links the mailbox can ever yield.
AllLinks ==
    UNION {get_solution_links_from_text(MailText(i)[1]) : i \in {k \in Items : MailText(k) # None}}

\* ------------------------------------------------------- html_service
PathTail(link) == UrlSeg(link[Len(link)])

\* Whether int() accepts the string.
IsInt(ds) == ds # <<>> /\ Range(ds) \subseteq Digits

get_problem_number(link) == IntOf(PathTail(link))

HasToken(link) == \E k \in 1..Len(link) : link[k] \in UrlNames /\ UrlHasToken(link[k])

\* ---------------------------------------------------- artifact paths
DigitTok(d) ==
    CASE d = 0 -> "0" [] d = 1 -> "1" [] d = 2 -> "2" [] d = 3 -> "3"
      [] d = 4 -> "4" [] d = 5 -> "5" [] d = 6 -> "6" [] d = 7 -> "7"
      [] d = 8 -> "8" [] d = 9 -> "9"

RECURSIVE Decimal(_)
Decimal(n) == IF n < 10 THEN <<DigitTok(n)>> ELSE Decimal(n \div 10) \o <<DigitTok(n % 10)>>

\* f'{problem_id:03d}'
Pad3(n) ==
    LET d == Decimal(n)
    IN IF Len(d) >= 3 THEN d ELSE [k \in 1..(3 - Len(d)) |-> "0"] \o d

\* Variant: every document goes to the same file of its difficulty.
FilePath_NoNumber(problem_id, difficulty) ==
    <<"solutions", "/">> \o difficulty \o <<"/", "problem", ".md">>

\* Variant: the problem number is written without padding.
FilePath_Unpadded(problem_id, difficulty) ==
    <<"solutions", "/">> \o difficulty \o <<"/", "problem_">> \o Decimal(problem_id) \o <<".md">>

\* os.path.join('solutions', difficulty, f'problem_{problem_id:03d}.md')
FilePath(problem_id, difficulty) ==
    <<"solutions", "/">> \o difficulty \o <<"/", "problem_">> \o Pad3(problem_id) \o <<".md">>

\* =============================================================== state
VARIABLES
    emails,     \* run_data['emails']: message id -> subject or None
    links,      \* run_data['links']: missing, a list of links, or a dict link -> path or None
    problems,   \* run_data['problems']: problem id -> difficulty
    blob,       \* the run data file: "ok" when it holds a complete pickle, "partial" otherwise
    emailFile,  \* the list of message ids in the walker's email file
    lastRun,    \* the 'timestamp' of the walker's last run file (0 when there is none)
    clock,      \* wall clock, in seconds
    files,      \* the paths of the artifact files written under solutions/
    inflight,   \* the run_data that a started, unfinished run holds in memory
    search,     \* the result pages of the mail search a paging program is walking
    walk,       \* position and locals of a paging program that runs step by step
    fate,       \* what repeated passes are given each time: the flag and the outcome of each fetch
    last        \* what the most recent run did (history, read by no run)

vars == <<emails, links, problems, blob, emailFile, lastRun, clock, files, inflight, search, walk, fate, last>>

\* The three maps of the run data file.
Persisted == <<emails, links, problems>>

NoLinks == [kind |-> "missing", order |-> <<>>, val |-> <<>>]

NoRun == [op |-> "none", flag |-> 0, batch |-> {}, timeouts |-> {}, failed |-> {}, tried |-> {},
          got |-> <<>>, end |-> "none", saved |-> FALSE, kill |-> "no"]

\* No batch processor run ("bp") and no downloader run ("dl") is between
\* its get_run_data and its save_run_data; stale tells whether the last
\* save was made from a copy loaded before another run saved, runs how
\* many runs have loaded the file in two steps so far.
NoneInFlight == [bp |-> None, dl |-> None, stale |-> FALSE, runs |-> 0]

\* Nothing is fixed from one pass to the next.
NoFate == [limit |-> 0, fetch |-> <<>>, api |-> <<>>]

\* No paging program is running step by step.
NoWalk == [prog |-> "none", pc |-> "idle", next_page_token |-> None, collected |-> <<>>,
           i |-> 0, message_count |-> 0, pos |-> 0, yielded |-> <<>>, calls |-> <<>>]

\* The run data file as the walker's downstream merge leaves it: every
\* message of the mailbox recorded as not yet fetched, nothing else.
Init ==
    /\ emails = [i \in Items |-> None]
    /\ links = NoLinks
    /\ problems = <<>>
    /\ blob = "ok"
    /\ emailFile = <<>>
    /\ lastRun = 0
    /\ clock = 1
    /\ files = {}
    /\ inflight = NoneInFlight
    /\ search = <<>>
    /\ walk = NoWalk
    /\ fate = NoFate
    /\ last = NoRun

\* The links of the collection, whatever its shape.
LinkKeys(l) == Range(l.order)

\* ================================================ download_links.py
\* {email_id: None for email_id, sub in emails.items() if not sub}, as the
\* sequence of its keys in dict order.
RECURSIVE Ascending(_)
Ascending(S) == IF S = {} THEN <<>> ELSE <<Min(S)>> \o Ascending(S \ {Min(S)})

NewEmails(em) == Ascending({i \in DOMAIN em : Falsy(em[i])})

\* batch_size as main() computes it from the flag.
BatchSize(flag, n) == IF flag # 0 THEN flag ELSE n

\* The keys of new_emails that the loop of get_subject_and_links reaches.
BatchOf(keys, batch_size) == Take(keys, batch_size)

\* The batch that a batch processor run with this flag takes from em.
NextBatch(em, flag) == Range(BatchOf(NewEmails(em), BatchSize(flag, Len(NewEmails(em)))))

\* get_subject_and_links: the fetched subjects, keyed in fetch order, and
\* the set of links found in the fetched texts.
\* Variant: the first fetch that fails ends the loop.
FetchedOrder_UntilFailure(batch, fetch) ==
    SubSeq(batch, 1, Min({k \in 1..Len(batch) : fetch[batch[k]] # "ok"} \cup {Len(batch) + 1}) - 1)

\* Variant: a timed out fetch is handled like a successful one.
FetchedOrder_TimeoutCounts(batch, fetch) ==
    Filter(batch, {i \in Range(batch) : fetch[i] \in {"ok", "timeout"}})

FetchedOrder(batch, fetch) == Filter(batch, {i \in Range(batch) : fetch[i] = "ok"})

FetchedSubjects(batch, fetch) ==
    [i \in Range(FetchedOrder(batch, fetch)) |-> MailSubject(i)]

FetchedLinks(batch, fetch) ==
    UNION {get_solution_links_from_text(MailText(i)[1]) :
             i \in {k \in Range(FetchedOrder(batch, fetch)) : ~Falsy(MailText(k))}}

\* Variant: the difficulty of a later subject replaces the stored one.
RECURSIVE collect_problem_difficulty_LastWins(_, _, _)
collect_problem_difficulty_LastWins(order, new_emails, probs) ==
    IF order = <<>> THEN probs
    ELSE LET sub == new_emails[Head(order)]
             p == IF Falsy(sub) THEN None ELSE ParseSubject(sub[1])
         IN IF p = None
            THEN collect_problem_difficulty_LastWins(Tail(order), new_emails, probs)
            ELSE collect_problem_difficulty_LastWins(Tail(order), new_emails,
                     [k \in DOMAIN probs \cup {p[1].id} |->
                         IF k = p[1].id THEN p[1].difficulty ELSE probs[k]])

\* collect_problem_difficulty over the keys of new_emails in order.
RECURSIVE collect_problem_difficulty(_, _, _)
collect_problem_difficulty(order, new_emails, probs) ==
    IF order = <<>> THEN probs
    ELSE LET sub == new_emails[Head(order)]
             p == IF Falsy(sub) THEN None ELSE ParseSubject(sub[1])
         IN IF p = None \/ p[1].id \in DOMAIN probs
            THEN collect_problem_difficulty(Tail(order), new_emails, probs)
            ELSE collect_problem_difficulty(Tail(order), new_emails,
                     probs @@ (p[1].id :> p[1].difficulty))

\* Variant: the dict is rebuilt from the new emails alone.
collect_all_emails_Rebuilt(new_emails, em) ==
    [i \in DOMAIN em \cup DOMAIN new_emails |->
        IF i \in DOMAIN new_emails THEN new_emails[i] ELSE None]

collect_all_emails(new_emails, em) ==
    [i \in DOMAIN em \cup DOMAIN new_emails |->
        IF i \in DOMAIN new_emails THEN new_emails[i] ELSE em[i]]

\* Variant: the list holds the links of this run only.
MergedLinkLists_FoundOnly(found, prev) ==
    {[kind |-> "list", order |-> o, val |-> [l \in Range(o) |-> None]] :
        o \in Perms(found)}

\* links.update(prev_links); run_data['links'] = list(links): the union as
\* a list, in the iteration order of the set.
MergedLinkLists(found, prev) ==
    {[kind |-> "list", order |-> o, val |-> [l \in Range(o) |-> None]] :
        o \in Perms(found \cup LinkKeys(prev))}

\* Whether main() writes the data file.
BatchChange(found, probs, problem_count) ==
    found # {} \/ Cardinality(DOMAIN probs) # problem_count

\* One run of download_links.main with the batch size flag, the outcome of
\* each content fetch, and the point at which the process is terminated
\* from outside ("no" for a full run).  The merged links end up as a list
\* in the iteration order of a set, which the run does not control.
BatchRun(flag, fetch, kill) ==
    LET keys == NewEmails(emails)
        batch == BatchOf(keys, BatchSize(flag, Len(keys)))
        new_emails == FetchedSubjects(batch, fetch)
        found == FetchedLinks(batch, fetch)
        probs == collect_problem_difficulty(FetchedOrder(batch, fetch), new_emails, problems)
        change == BatchChange(found, probs, Cardinality(DOMAIN problems))
    IN /\ blob = "ok"
       /\ DOMAIN fetch = Range(batch)
       /\ IF kill = "in_save" /\ change
          THEN /\ blob' = "partial"
               /\ emails' = <<>>
               /\ links' = NoLinks
               /\ problems' = <<>>
          ELSE IF kill = "no" /\ change
          THEN /\ emails' = collect_all_emails(new_emails, emails)
               /\ links' \in (IF found # {} THEN MergedLinkLists(found, links) ELSE {links})
               /\ problems' = probs
               /\ blob' = blob
          ELSE UNCHANGED <<emails, links, problems, blob>>
       /\ last' = [op |-> "batch", flag |-> flag, batch |-> Range(batch),
                   timeouts |-> {i \in Range(batch) : fetch[i] = "timeout"},
                   failed |-> {i \in Range(batch) : fetch[i] # "ok"},
                   tried |-> {}, got |-> new_emails, end |-> "done",
                   saved |-> (change /\ kill = "no"), kill |-> kill]
       /\ UNCHANGED <<emailFile, lastRun, clock, files, inflight, search, walk, fate>>

BatchInputs(flag) ==
    LET keys == NewEmails(emails)
    IN [Range(BatchOf(keys, BatchSize(flag, Len(keys)))) -> FetchOutcomes]

BatchProcessor ==
    \E flag \in 0..MaxLimit : \E fetch \in BatchInputs(flag) : BatchRun(flag, fetch, "no")

\* ============================================== download_solutions.py
\* Variant: every link of the collection is taken, resolved or not.
NewLinks_All(l) == l.order

\* {link: None for link, val in links.items() if not val}, keys in order.
NewLinks(l) == Filter(l.order, {k \in LinkKeys(l) : l.val[k] = None})

\* Variant: a link with an unknown problem ends the loop like an
\* exception, the links resolved before it are not returned.
RECURSIVE download_content_from_links_BreakDrops(_, _, _, _)
download_content_from_links_BreakDrops(probs, batch, api, acc) ==
    IF batch = <<>> THEN [got |-> acc.got, tried |-> acc.tried, end |-> "done"]
    ELSE LET link == Head(batch)
             tried == acc.tried \cup {link}
         IN IF ~IsInt(PathTail(link))
            THEN [got |-> acc.got, tried |-> tried, end |-> "crash"]
            ELSE IF get_problem_number(link) \notin DOMAIN probs
            THEN [got |-> <<>>, tried |-> tried, end |-> "break"]
            ELSE IF ~HasToken(link) \/ api[link] # "json"
            THEN [got |-> acc.got, tried |-> tried, end |-> "crash"]
            ELSE download_content_from_links_BreakDrops(probs, Tail(batch), api,
                     [got |-> acc.got @@ (link :> Some(FilePath(get_problem_number(link),
                                                               probs[get_problem_number(link)]))),
                      tried |-> tried])

\* The loop of download_content_from_links over the links it reaches:
\* the new_links built so far, the links whose handling started, and how
\* the loop ended ("done", "break", or "crash" for an exception that
\* nothing catches).
RECURSIVE download_content_from_links(_, _, _, _)
download_content_from_links(probs, batch, api, acc) ==
    IF batch = <<>> THEN [got |-> acc.got, tried |-> acc.tried, end |-> "done"]
    ELSE LET link == Head(batch)
             tried == acc.tried \cup {link}
         IN IF ~IsInt(PathTail(link))
            THEN [got |-> acc.got, tried |-> tried, end |-> "crash"]
            ELSE IF get_problem_number(link) \notin DOMAIN probs
            THEN [got |-> acc.got, tried |-> tried, end |-> "break"]
            ELSE IF ~HasToken(link) \/ api[link] # "json"
            THEN [got |-> acc.got, tried |-> tried, end |-> "crash"]
            ELSE download_content_from_links(probs, Tail(batch), api,
                     [got |-> acc.got @@ (link :> Some(FilePath(get_problem_number(link),
                                                               probs[get_problem_number(link)]))),
                      tried |-> tried])

\* Variant: the merged dict holds the links of this pass only.
collect_all_links_OnlyNew(new_links, l) ==
    [l EXCEPT !.order = Filter(l.order, DOMAIN new_links),
              !.val = [k \in DOMAIN new_links |-> new_links[k]]]

collect_all_links(new_links, l) ==
    [l EXCEPT !.val = [k \in LinkKeys(l) |-> IF k \in DOMAIN new_links THEN new_links[k] ELSE l.val[k]]]

\* One run of download_solutions.main.  save_content_to_file writes the
\* artifact of a link inside the loop, right before the link is put into
\* new_links, so the files of the run exist however the run ends.
DownloadRun(flag, api, kill) ==
    LET keys == NewLinks(links)
        batch == BatchOf(keys, BatchSize(flag, Len(keys)))
        r == download_content_from_links(problems, batch, api, [got |-> <<>>, tried |-> {}])
        change == r.end # "crash" /\ r.got # <<>>
    IN /\ blob = "ok"
       /\ links.kind # "list"
       /\ DOMAIN api = Range(batch)
       /\ IF kill = "in_save" /\ change
          THEN /\ blob' = "partial"
               /\ emails' = <<>>
               /\ links' = NoLinks
               /\ problems' = <<>>
          ELSE IF kill = "no" /\ change
          THEN /\ links' = collect_all_links(r.got, links)
               /\ UNCHANGED <<emails, problems, blob>>
          ELSE UNCHANGED <<emails, links, problems, blob>>
       /\ last' = [op |-> "download", flag |-> flag, batch |-> Range(batch),
                   timeouts |-> {}, failed |-> {}, tried |-> r.tried, got |-> r.got, end |-> r.end,
                   saved |-> (change /\ kill = "no"), kill |-> kill]
       /\ files' = files \cup {r.got[k][1] : k \in DOMAIN r.got}
       /\ UNCHANGED <<emailFile, lastRun, clock, inflight, search, walk, fate>>

DownloadInputs(flag) ==
    LET keys == NewLinks(links)
    IN [Range(BatchOf(keys, BatchSize(flag, Len(keys)))) -> ApiOutcomes]

Downloader ==
    \E flag \in 0..MaxLimit : \E api \in DownloadInputs(flag) : DownloadRun(flag, api, "no")

\* links.items() on a list raises AttributeError: the run ends there.
DownloaderOnList ==
    /\ blob = "ok"
    /\ links.kind = "list"
    /\ last' = [NoRun EXCEPT !.op = "download", !.end = "crash"]
    /\ UNCHANGED <<emails, links, problems, blob, emailFile, lastRun, clock, files, inflight, search, walk, fate>>

\* ====================================================== adjust_data.py
add_str_to_links ==
    /\ blob = "ok"
    /\ links.kind = "list"
    /\ links' = [kind |-> "dict", order |-> links.order,
                 val |-> [k \in LinkKeys(links) |-> None]]
    /\ last' = [NoRun EXCEPT !.op = "adjust", !.end = "done", !.saved = TRUE]
    /\ UNCHANGED <<emails, problems, blob, emailFile, lastRun, clock, files, inflight, search, walk, fate>>

\* =================================================== download_emails.py
\* The messages the search matches at second now: 'after: <timestamp>' is
\* added to the query only for a non-zero timestamp.
SearchMatches(timestamp, now) ==
    {i \in Items : Arrival(i) <= now /\ (timestamp = 0 \/ Arrival(i) >= timestamp)}

\* The mail service lists the newest message first.
RECURSIVE Descending(_)
Descending(S) == IF S = {} THEN <<>> ELSE <<Max(S)>> \o Descending(S \ {Max(S)})

\* The result pages of a search: at most MaxResults identifiers each; a
\* page carries a continuation token exactly when another page follows.
\* The listing is not frozen between two calls: with overlap = 1 it has
\* shifted by one place when the next page is asked for, so that the last
\* identifier of a page is listed again at the head of the following one.
RECURSIVE Pages(_, _)
Pages(ids, overlap) ==
    IF Len(ids) <= MaxResults THEN <<ids>>
    ELSE <<SubSeq(ids, 1, MaxResults)>>
             \o Pages(SubSeq(ids, MaxResults + 1 - overlap, Len(ids)), overlap)

\* email_ids after the first call and the while loop over the tokens.
RECURSIVE WalkPages(_)
WalkPages(pages) == IF pages = <<>> THEN <<>> ELSE Head(pages) \o WalkPages(Tail(pages))

\* Variant: the floor is the time at which the run writes it.
FloorOf_AtEnd(started, ended) == ended

\* last_run_state['timestamp'] = math.floor(current_timestamp), with
\* current_timestamp read on the first line of main().
FloorOf(started, ended) == started

\* Variant: the last run file is written before the walk.
WalkRun_FloorFirst(failAt, io, overlap, lag, took) ==
    LET pages == Pages(Descending(SearchMatches(lastRun, clock + lag)), overlap)
        wroteIds == failAt = 0 /\ io # "email_file"
    IN /\ lag <= took
       /\ clock + took <= MaxClock
       /\ failAt \in 0..Len(pages)
       /\ emailFile' = IF wroteIds THEN WalkPages(pages) ELSE emailFile
       /\ lastRun' = clock
       /\ clock' = clock + took
       /\ last' = [NoRun EXCEPT !.op = "walk", !.flag = failAt,
                                !.end = IF failAt = 0 THEN io ELSE "crash",
                                !.saved = TRUE]
       /\ UNCHANGED <<emails, links, problems, blob, files, inflight, search, walk, fate>>

\* One run of download_emails.main: failAt is the search call that raises
\* (0 when none does), io tells which of the two writes raises OSError,
\* overlap how the listing shifts between two calls.  The run takes `took`
\* seconds, and the mail service answers the search with the messages it
\* holds `lag` seconds after the start of the run.
WalkRun(failAt, io, overlap, lag, took) ==
    LET current_timestamp == clock
        pages == Pages(Descending(SearchMatches(lastRun, clock + lag)), overlap)
        walked == failAt = 0
        wroteIds == walked /\ io # "email_file"
        wroteFloor == wroteIds /\ io # "last_run_file"
    IN /\ lag <= took
       /\ clock + took <= MaxClock
       /\ failAt \in 0..Len(pages)
       /\ emailFile' = IF wroteIds THEN WalkPages(pages) ELSE emailFile
       /\ lastRun' = IF wroteFloor THEN FloorOf(current_timestamp, clock + took) ELSE lastRun
       /\ clock' = clock + took
       /\ last' = [NoRun EXCEPT !.op = "walk", !.flag = failAt,
                                !.end = IF walked THEN io ELSE "crash",
                                !.saved = wroteFloor]
       /\ UNCHANGED <<emails, links, problems, blob, files, inflight, search, walk, fate>>

Walker ==
    \E failAt \in 0..Cardinality(Items) : \E io \in {"ok", "email_file", "last_run_file"} :
        \E overlap \in {0, 1} : \E took \in 0..MaxWalkTime : \E lag \in 0..took :
            WalkRun(failAt, io, overlap, lag, took)

Tick ==
    /\ clock < MaxClock
    /\ clock' = clock + 1
    /\ UNCHANGED <<emails, links, problems, blob, emailFile, lastRun, files, inflight, last, search, walk, fate>>

\* ================================================ process termination
\* download_helper.save_run_data opens the data file with mode 'wb', which
\* empties it, and then dumps the pickle into it.  A process terminated
\* before the save leaves the file alone; one terminated inside the dump
\* leaves a file that is not a complete pickle.
BatchKilled ==
    \E flag \in 0..MaxLimit : \E fetch \in BatchInputs(flag) :
        \E kill \in {"before_save", "in_save"} :
            /\ BatchRun(flag, fetch, kill)
            /\ kill = "in_save" => blob' = "partial"

DownloadKilled ==
    \E flag \in 0..MaxLimit : \E api \in DownloadInputs(flag) :
        \E kill \in {"before_save", "in_save"} :
            /\ DownloadRun(flag, api, kill)
            /\ kill = "in_save" => blob' = "partial"

\* download_helper.get_run_data: pickle.load of an incomplete file raises
\* an error that is not an OSError, so the run ends with a traceback.
get_run_data_fails ==
    /\ blob = "partial"
    /\ last' = [NoRun EXCEPT !.op = "load", !.end = "crash"]
    /\ UNCHANGED <<emails, links, problems, blob, emailFile, lastRun, clock, files, inflight, search, walk, fate>>

\* ============================================== overlapping runs
\* download_helper has no lock: a run reads the whole data file into
\* run_data at its start (get_run_data) and writes the whole of run_data
\* back at its end (save_run_data); another run can do both in between.
\* Variant: the run reads the data file again right before it saves.
Loaded_Reread(p) == [emails |-> emails, links |-> links, problems |-> problems]

\* The run_data that the started run p works on.
Loaded(p) == inflight[p][1]

\* run_data = download_helper.get_run_data() of a batch processor run.
BatchLoad ==
    /\ blob = "ok"
    /\ inflight.bp = None
    /\ inflight.runs < MaxRuns
    /\ inflight' = [inflight EXCEPT
                       !.bp = Some([emails |-> emails, links |-> links, problems |-> problems]),
                       !.runs = @ + 1]
    /\ UNCHANGED <<emails, links, problems, blob, emailFile, lastRun, clock, files, last, search, walk, fate>>

\* The rest of download_links.main, from line 32 to the save.
BatchFinish(flag, fetch) ==
    LET s == Loaded("bp")
        keys == NewEmails(s.emails)
        batch == BatchOf(keys, BatchSize(flag, Len(keys)))
        new_emails == FetchedSubjects(batch, fetch)
        found == FetchedLinks(batch, fetch)
        probs == collect_problem_difficulty(FetchedOrder(batch, fetch), new_emails, s.problems)
        change == BatchChange(found, probs, Cardinality(DOMAIN s.problems))
    IN /\ inflight.bp # None
       /\ DOMAIN fetch = Range(batch)
       /\ IF change
          THEN /\ emails' = collect_all_emails(new_emails, s.emails)
               /\ links' \in (IF found # {} THEN MergedLinkLists(found, s.links) ELSE {s.links})
               /\ problems' = probs
          ELSE UNCHANGED <<emails, links, problems>>
       /\ inflight' = [inflight EXCEPT
                          !.bp = None,
                          !.stale = IF change THEN inflight.bp[1] # Loaded_Reread("bp") ELSE @]
       /\ last' = [op |-> "batch", flag |-> flag, batch |-> Range(batch),
                   timeouts |-> {i \in Range(batch) : fetch[i] = "timeout"},
                   failed |-> {i \in Range(batch) : fetch[i] # "ok"},
                   tried |-> {}, got |-> new_emails, end |-> "done",
                   saved |-> change, kill |-> "no"]
       /\ UNCHANGED <<blob, emailFile, lastRun, clock, files, search, walk, fate>>

BatchFinishInputs(flag) ==
    IF inflight.bp = None THEN {}
    ELSE LET keys == NewEmails(Loaded("bp").emails)
         IN [Range(BatchOf(keys, BatchSize(flag, Len(keys)))) -> FetchOutcomes]

BatchOverlapped ==
    \/ BatchLoad
    \/ \E flag \in 0..MaxLimit : \E fetch \in BatchFinishInputs(flag) : BatchFinish(flag, fetch)

\* run_data = download_helper.get_run_data() of a downloader run.
DownloadLoad ==
    /\ blob = "ok"
    /\ inflight.dl = None
    /\ inflight.runs < MaxRuns
    /\ inflight' = [inflight EXCEPT
                       !.dl = Some([emails |-> emails, links |-> links, problems |-> problems]),
                       !.runs = @ + 1]
    /\ UNCHANGED <<emails, links, problems, blob, emailFile, lastRun, clock, files, last, search, walk, fate>>

\* The rest of download_solutions.main, from line 34 to the save; on a
\* list of links the run ends at line 37.
DownloadFinish(flag, api) ==
    LET s == Loaded("dl")
        onList == s.links.kind = "list"
        keys == IF onList THEN <<>> ELSE NewLinks(s.links)
        batch == BatchOf(keys, BatchSize(flag, Len(keys)))
        r == download_content_from_links(s.problems, batch, api, [got |-> <<>>, tried |-> {}])
        change == r.end # "crash" /\ r.got # <<>>
    IN /\ inflight.dl # None
       /\ DOMAIN api = Range(batch)
       /\ IF change
          THEN /\ emails' = s.emails
               /\ links' = collect_all_links(r.got, s.links)
               /\ problems' = s.problems
          ELSE UNCHANGED <<emails, links, problems>>
       /\ inflight' = [inflight EXCEPT
                          !.dl = None,
                          !.stale = IF change THEN inflight.dl[1] # Loaded_Reread("dl") ELSE @]
       /\ last' = [op |-> "download", flag |-> flag, batch |-> Range(batch),
                   timeouts |-> {}, failed |-> {}, tried |-> r.tried, got |-> r.got,
                   end |-> IF onList THEN "crash" ELSE r.end,
                   saved |-> change, kill |-> "no"]
       /\ files' = files \cup {r.got[k][1] : k \in DOMAIN r.got}
       /\ UNCHANGED <<blob, emailFile, lastRun, clock, search, walk, fate>>

DownloadFinishInputs(flag) ==
    IF inflight.dl = None \/ Loaded("dl").links.kind = "list" THEN {<<>>}
    ELSE LET keys == NewLinks(Loaded("dl").links)
         IN [Range(BatchOf(keys, BatchSize(flag, Len(keys)))) -> ApiOutcomes]

DownloadOverlapped ==
    \/ DownloadLoad
    \/ \E flag \in 0..MaxLimit : \E api \in DownloadFinishInputs(flag) : DownloadFinish(flag, api)

\* ================================== collect_problem_difficulty alone
\* The subjects that a fetch can return, as far as the two patterns of
\* collect_problem_difficulty can tell them apart: every string of at most
\* MaxSubject tokens.
SubjectTokens == {"#", "1", "2", "[", "]", "Hard"}

Subjects == UNION {[1..n -> SubjectTokens] : n \in 0..MaxSubject}

\* main() right after get_subject_and_links returned new_emails with one
\* fetched item, whose subject is any of Subjects or None, the problems
\* map being empty or holding problem 1 already.
InitParse ==
    /\ emails = [i \in Items |-> None]
    /\ links = NoLinks
    /\ problems \in {<<>>, (1 :> <<"Medium">>)}
    /\ blob = "ok"
    /\ emailFile = <<>>
    /\ lastRun = 0
    /\ clock = 1
    /\ files = {}
    /\ inflight = NoneInFlight
    /\ search = <<>>
    /\ walk = NoWalk
    /\ fate = NoFate
    /\ last \in {[NoRun EXCEPT !.op = "fetched", !.got = (1 :> sub)] :
                   sub \in {None} \cup {Some(s) : s \in Subjects}}

\* problems = collect_problem_difficulty(new_emails, problems)
CollectProblems ==
    /\ last.op = "fetched"
    /\ problems' = collect_problem_difficulty(<<1>>, last.got, problems)
    /\ last' = [last EXCEPT !.op = "collected"]
    /\ UNCHANGED <<emails, links, blob, emailFile, lastRun, clock, files, inflight, search, walk, fate>>

\* ================================================== repeated passes
\* The batch processor is run again and again with the same batch size
\* flag, on a mailbox that gets no new message; the fetch of a message
\* gives the same outcome at every attempt: its content, not found, or
\* more than one text part.
InitRetryBatch ==
    /\ emails = [i \in Items |-> None]
    /\ links = NoLinks
    /\ problems = <<>>
    /\ blob = "ok"
    /\ emailFile = <<>>
    /\ lastRun = 0
    /\ clock = 1
    /\ files = {}
    /\ inflight = NoneInFlight
    /\ search = <<>>
    /\ walk = NoWalk
    /\ fate \in {[limit |-> n, fetch |-> f, api |-> <<>>] :
                   n \in 1..MaxLimit,
                   f \in [Items -> {"ok", "not_found", "too_many_parts"}]}
    /\ last = NoRun

\* One more pass of download_links.main.
BatchRepeat ==
    BatchRun(fate.limit, [i \in NextBatch(emails, fate.limit) |-> fate.fetch[i]], "no")

\* The run data files that one batch run with flag 0 followed by
\* adjust_data.py leaves when the run found links: the fetch of each
\* message gave its content or not found, and the list of the links has
\* whatever order the set had.
RetryDownloadFiles ==
    UNION {{[fetch |-> f,
             emails |-> collect_all_emails(FetchedSubjects(Ascending(Items), f),
                                           [i \in Items |-> None]),
             problems |-> collect_problem_difficulty(FetchedOrder(Ascending(Items), f),
                                                     FetchedSubjects(Ascending(Items), f), <<>>),
             links |-> [kind |-> "dict", order |-> o, val |-> [k \in Range(o) |-> None]]] :
               o \in Perms(FetchedLinks(Ascending(Items), f))} :
           f \in {g \in [Items -> {"ok", "not_found"}] : FetchedLinks(Ascending(Items), g) # {}}}

\* The downloader is run again and again with the same batch size flag
\* on such a file; the content API gives the same outcome for a link at
\* every attempt.
InitRetryDownload ==
    /\ \E d \in RetryDownloadFiles :
          /\ emails = d.emails
          /\ problems = d.problems
          /\ links = d.links
          /\ fate \in {[limit |-> n, fetch |-> d.fetch, api |-> a] :
                         n \in 1..MaxLimit, a \in [LinkKeys(d.links) -> ApiOutcomes]}
    /\ blob = "ok"
    /\ emailFile = <<>>
    /\ lastRun = 0
    /\ clock = 1
    /\ files = {}
    /\ inflight = NoneInFlight
    /\ search = <<>>
    /\ walk = NoWalk
    /\ last = NoRun

\* One more pass of download_solutions.main.
DownloadRepeat ==
    DownloadRun(fate.limit,
                [k \in Range(BatchOf(NewLinks(links), BatchSize(fate.limit, Len(NewLinks(links)))))
                    |-> fate.api[k]],
                "no")

\* ============================================ paging through a search
\* The listings a search can have, each given by the sizes of its result
\* pages: the identifiers are numbered in the order of the listing, a page
\* may be empty, and every page but the last carries a continuation token.
Listings == UNION {[1..n -> 0..MaxResults] : n \in 1..MaxPages}

\* The number of identifiers on the first k pages.
RECURSIVE SumSizes(_, _)
SumSizes(sizes, k) == IF k = 0 THEN 0 ELSE SumSizes(sizes, k - 1) + sizes[k]

PageIds(sizes, k) == [j \in 1..sizes[k] |-> SumSizes(sizes, k - 1) + j]

\* All identifiers of the listing, page after page.
RECURSIVE AllIds(_, _)
AllIds(sizes, k) == IF k = 0 THEN <<>> ELSE AllIds(sizes, k - 1) \o PageIds(sizes, k)

\* users().messages().list(q=query, pageToken=page_token).execute(): the
\* page that the token names (the first one without a token) and the
\* token of the page after it, None on the last page.
search_messages(page_token) ==
    LET k == IF page_token = None THEN 1 ELSE page_token[1]
    IN [messages |-> PageIds(search, k),
        next_page_token |-> IF k < Len(search) THEN Some(k + 1) ELSE None]

\* A paging program is started on some listing; the walker has read the
\* floor of its last run file, 0 when there is none.
InitPaging ==
    /\ emails = [i \in Items |-> None]
    /\ links = NoLinks
    /\ problems = <<>>
    /\ blob = "ok"
    /\ emailFile = <<>>
    /\ lastRun \in {0, 1}
    /\ clock = 1
    /\ files = {}
    /\ inflight = NoneInFlight
    /\ search \in Listings
    /\ walk \in {[NoWalk EXCEPT !.prog = p, !.pc = "start"] :
                   p \in {"download_emails", "download", "download_dcp"}}
    /\ fate = NoFate
    /\ last = NoRun

\* ---- download_emails.main, lines 92-112, one search call per step
\* Variant: the loop ends at a page without identifiers.
WalkContinues_NonEmpty(w) ==
    /\ w.next_page_token # None
    /\ search_messages(w.calls[Len(w.calls)].page_token).messages # <<>>

\* while next_page_token:
WalkContinues(w) == w.next_page_token # None

\* The first call of get_dcp_messages, with next_page_token=None.
WalkFirstCall ==
    /\ walk.prog = "download_emails"
    /\ walk.pc = "start"
    /\ LET r == search_messages(None)
       IN walk' = [walk EXCEPT !.pc = "loop",
                               !.collected = r.messages,
                               !.next_page_token = r.next_page_token,
                               !.calls = <<[page_token |-> None, after |-> lastRun]>>]
    /\ UNCHANGED <<emails, links, problems, blob, emailFile, lastRun, clock, files, inflight, search, last, fate>>

\* One turn of the while loop.
WalkNextCall ==
    /\ walk.prog = "download_emails"
    /\ walk.pc = "loop"
    /\ WalkContinues(walk)
    /\ LET r == search_messages(walk.next_page_token)
       IN walk' = [walk EXCEPT !.collected = @ \o r.messages,
                               !.next_page_token = r.next_page_token,
                               !.calls = Append(@, [page_token |-> walk.next_page_token,
                                                    after |-> lastRun])]
    /\ UNCHANGED <<emails, links, problems, blob, emailFile, lastRun, clock, files, inflight, search, last, fate>>

\* The loop condition fails: email_ids is complete.
WalkLoopEnd ==
    /\ walk.prog = "download_emails"
    /\ walk.pc = "loop"
    /\ ~WalkContinues(walk)
    /\ walk' = [walk EXCEPT !.pc = "done"]
    /\ UNCHANGED <<emails, links, problems, blob, emailFile, lastRun, clock, files, inflight, search, last, fate>>

\* ---- get_emails of download.py and of download_dcp.py
Generators == {"download", "download_dcp"}

\* messages, next_page_token = _get_emails(service, query), and the return
\* when the first page has no messages.
GenFirstCall ==
    /\ walk.prog \in Generators
    /\ walk.pc = "start"
    /\ LET r == search_messages(None)
       IN walk' = [walk EXCEPT !.pc = IF r.messages = <<>> THEN "done" ELSE "iter",
                               !.collected = r.messages,
                               !.message_count = Len(r.messages),
                               !.next_page_token = r.next_page_token,
                               !.calls = <<[page_token |-> None, after |-> 0]>>]
    /\ UNCHANGED <<emails, links, problems, blob, emailFile, lastRun, clock, files, inflight, search, last, fate>>

\* One turn of `for message in collected_messages`: the yield, and the
\* code up to the next yield.  Only download_dcp.py adds the length of
\* the new page to message_count.
GenYield ==
    /\ walk.prog \in Generators
    /\ walk.pc = "iter"
    /\ walk.pos < Len(walk.collected)
    /\ LET i == walk.i + 1
           more == i = walk.message_count /\ walk.next_page_token # None
           r == search_messages(walk.next_page_token)
       IN walk' = [walk EXCEPT
                      !.yielded = Append(@, walk.collected[walk.pos + 1]),
                      !.pos = @ + 1,
                      !.i = i,
                      !.collected = IF more THEN @ \o r.messages ELSE @,
                      !.message_count = IF more /\ walk.prog = "download_dcp"
                                        THEN @ + Len(r.messages) ELSE @,
                      !.next_page_token = IF more THEN r.next_page_token ELSE @,
                      !.calls = IF more
                                THEN Append(@, [page_token |-> walk.next_page_token, after |-> 0])
                                ELSE @]
    /\ UNCHANGED <<emails, links, problems, blob, emailFile, lastRun, clock, files, inflight, search, last, fate>>

\* The list is exhausted: the for loop ends and so does the generator.
GenEnd ==
    /\ walk.prog \in Generators
    /\ walk.pc = "iter"
    /\ walk.pos = Len(walk.collected)
    /\ walk' = [walk EXCEPT !.pc = "done"]
    /\ UNCHANGED <<emails, links, problems, blob, emailFile, lastRun, clock, files, inflight, search, last, fate>>

\* ====================================================== specifications
Next ==
    \/ Walker
    \/ BatchProcessor
    \/ Downloader
    \/ DownloaderOnList
    \/ add_str_to_links
    \/ Tick

\* Every program of the pipeline, run one at a time, each to its end.
Spec == Init /\ [][Next]_vars

NextPipe ==
    \/ BatchProcessor
    \/ Downloader
    \/ DownloaderOnList
    \/ add_str_to_links

\* The programs that read and write the run data file.
SpecPipe == Init /\ [][NextPipe]_vars

NextWalk ==
    \/ Walker
    \/ Tick

\* The walker alone, with its two files.
SpecWalk == Init /\ [][NextWalk]_vars

NextCrash ==
    \/ BatchProcessor
    \/ Downloader
    \/ DownloaderOnList
    \/ add_str_to_links
    \/ BatchKilled
    \/ DownloadKilled
    \/ get_run_data_fails

\* The programs of the run data file, with runs terminated from outside.
SpecCrash == Init /\ [][NextCrash]_vars

NextOverlap ==
    \/ BatchOverlapped
    \/ DownloadOverlapped
    \/ add_str_to_links

\* Batch processor and downloader runs that can overlap: each run is a load
\* step and a finish step, with steps of the other program in between.
SpecOverlap == Init /\ [][NextOverlap]_vars

NextParse == CollectProblems

\* collect_problem_difficulty applied to one fetched subject.
SpecParse == InitParse /\ [][NextParse]_vars

NextRetryBatch == BatchRepeat

\* Batch processor passes with a fixed flag, one after the other without
\* end: a pass that can be made is made.
SpecRetryBatch == InitRetryBatch /\ [][NextRetryBatch]_vars /\ WF_vars(BatchRepeat)

NextRetryDownload == DownloadRepeat

\* Downloader passes with a fixed flag, one after the other without end.
SpecRetryDownload == InitRetryDownload /\ [][NextRetryDownload]_vars /\ WF_vars(DownloadRepeat)

NextPaging ==
    \/ WalkFirstCall
    \/ WalkNextCall
    \/ WalkLoopEnd
    \/ GenFirstCall
    \/ GenYield
    \/ GenEnd

\* One paging program on one listing, step by step.  A started program
\* keeps running: a step that can be taken is taken.
SpecPaging == InitPaging /\ [][NextPaging]_vars /\ WF_vars(NextPaging)

\* ============================================================== claims
\* The problem entry that the subject of a fetched item carries, or None.
Carried(o) == IF Falsy(o) THEN None ELSE ParseSubject(o[1])

\* C1: once links[url] holds an artifact path in the run data file, every
\* later state of the file holds the same path for it, a batch processor
\* run that merges new links included.
C1_ResolutionKept ==
    [][\A l \in LinkKeys(links) :
          links.val[l] # None => l \in LinkKeys(links') /\ links'.val[l] = links.val[l]]_vars

\* C2: once an item has a subject in the run data file, no later run
\* clears or changes it.
C2_SubjectKept ==
    [][\A i \in DOMAIN emails :
          emails[i] # None => i \in DOMAIN emails' /\ emails'[i] = emails[i]]_vars

\* C2 witness: a batch run saved the file while an item it did not fetch
\* already had its subject.
C2_Witness ==
    /\ last.op = "batch"
    /\ last.saved
    /\ \E i \in DOMAIN emails : emails[i] # None /\ i \notin DOMAIN last.got

\* C3: the keys of items, links and problems only grow, in the run data
\* file and in the identifiers the walker stores.
C3_KeysOnlyGrow ==
    [][/\ DOMAIN emails \subseteq DOMAIN emails'
       /\ LinkKeys(links) \subseteq LinkKeys(links')
       /\ DOMAIN problems \subseteq DOMAIN problems'
       /\ Range(emailFile) \subseteq Range(emailFile')]_vars

\* C4: after a completed batch processor run, every item it fetched has its
\* subject in the run data file.
C4_FetchedSubjectSaved ==
    (last.op = "batch" /\ last.kill = "no") =>
        \A i \in DOMAIN last.got : i \in DOMAIN emails /\ emails[i] = last.got[i]

\* C5: when a link of a downloader batch fails, the other links of the
\* batch are still attempted and the resolutions made in the run are in the
\* run data file.
C5_LinkFailureIsolated ==
    (last.op = "download" /\ last.end = "crash" /\ links.kind = "dict") =>
        /\ last.batch \subseteq last.tried
        /\ \A l \in DOMAIN last.got : links.val[l] = last.got[l]

\* C6: a link whose problem id is unknown is skipped, stays unresolved, and
\* the remaining links of the batch are still attempted.
C6_UnknownProblemSkipped ==
    (last.op = "download" /\ last.end = "break") =>
        /\ last.batch \subseteq last.tried
        /\ \A l \in last.tried \ DOMAIN last.got : links.val[l] = None

\* C7: whenever a batch processor or downloader run ends, terminated or
\* not, the run data file is a complete pickle holding either what it held
\* before the run or everything the run had to save.
C7_CrashAtomic ==
    [][(last' # last /\ last'.op \in {"batch", "download"}) =>
          /\ blob' = "ok"
          /\ last'.saved \/ Persisted' = Persisted]_vars

\* C8: a walk with a failed search call leaves the floor and the stored
\* identifiers as they were, and the floor is written only by a walk whose
\* calls all succeeded and whose identifiers were stored.
C8_FailedWalkKeepsFloor ==
    [][/\ (last' # last /\ last'.op = "walk" /\ last'.end = "crash") =>
              lastRun' = lastRun /\ emailFile' = emailFile
       /\ (last' # last /\ last'.op = "walk" /\ last'.saved) =>
              /\ last'.flag = 0
              /\ \E at \in clock..clock' : Range(emailFile') = SearchMatches(lastRun, at)
       /\ lastRun' # lastRun => last'.op = "walk" /\ last'.saved]_vars

\* C8 witness: a walk failed at a search call after an earlier walk had
\* stored identifiers and a floor.
C8_Witness ==
    /\ last.op = "walk"
    /\ last.end = "crash"
    /\ lastRun # 0
    /\ emailFile # <<>>

\* C9: an item whose fetch timed out in a batch processor run keeps the
\* subject it had, which still counts as unprocessed, and is in the batch
\* of the next run with the same flag; no other program changes the items
\* in between.
C9_TimeoutRetried ==
    /\ [][(last' # last /\ last'.op = "batch") =>
            \A i \in last'.timeouts :
                    /\ emails'[i] = emails[i]
                    /\ Falsy(emails'[i])
                    /\ i \in NextBatch(emails', last'.flag)]_vars
    /\ [][last'.op # "batch" => emails' = emails]_vars

\* C9 witness: a saved batch run in which one fetch timed out.
C9_Witness ==
    /\ last.op = "batch"
    /\ last.saved
    /\ last.timeouts # {}

\* The items of got, a dict of fetched subjects, that carry problem id pid.
Carriers(got, pid) ==
    {k \in DOMAIN got : Carried(got[k]) # None /\ Carried(got[k])[1].id = pid}

\* C10: a stored difficulty is never overwritten, and among the items of
\* one batch that carry a new problem id the first one sets the difficulty.
C10_FirstWriterWins ==
    [][/\ \A p \in DOMAIN problems : p \in DOMAIN problems' /\ problems'[p] = problems[p]
       /\ (last' # last /\ last'.op = "batch" /\ last'.saved) =>
              \A pid \in DOMAIN problems' \ DOMAIN problems :
                  /\ Carriers(last'.got, pid) # {}
                  /\ problems'[pid] = Carried(last'.got[Min(Carriers(last'.got, pid))])[1].difficulty]_vars

\* C10 witness: a saved batch run fetched an item whose subject carries a
\* stored problem id with another difficulty.
C10_Witness ==
    /\ last.op = "batch"
    /\ last.saved
    /\ \E i \in DOMAIN last.got :
          /\ Carried(last.got[i]) # None
          /\ Carried(last.got[i])[1].id \in DOMAIN problems
          /\ problems[Carried(last.got[i])[1].id] # Carried(last.got[i])[1].difficulty

\* C11: the identifiers that a walk stores hold each identifier once, also
\* when the mail service lists an identifier on two pages.
C11_WalkDeduplicates ==
    \A i, j \in 1..Len(emailFile) : emailFile[i] = emailFile[j] => i = j

\* The links that the texts of the items fetched by a batch run contain.
FoundBy(run) ==
    UNION {get_solution_links_from_text(MailText(i)[1]) :
             i \in {k \in DOMAIN run.got : ~Falsy(MailText(k))}}

\* Two links collections with the same entries: the same shape, the same
\* links, each as many times, with the same resolutions.  The order of a
\* list of links is the iteration order of a set, which is not the same
\* from one process to the next.
SameCollection(a, b) ==
    /\ a.kind = b.kind
    /\ Len(a.order) = Len(b.order)
    /\ LinkKeys(a) = LinkKeys(b)
    /\ \A k \in LinkKeys(a) : a.val[k] = b.val[k]

\* C12: when a batch run merges the links S it found, the links of the
\* stored collection are exactly the links stored before united with S,
\* each once, and merging S into the result again gives the same
\* collection.
C12_MergeIdempotent ==
    [][(last' # last /\ last'.op = "batch" /\ last'.saved /\ FoundBy(last') # {}) =>
          /\ LinkKeys(links') = LinkKeys(links) \cup FoundBy(last')
          /\ Len(links'.order) = Cardinality(LinkKeys(links'))
          /\ \A m \in MergedLinkLists(FoundBy(last'), links') : SameCollection(m, links')]_vars

\* C12 witness: a batch run merged the links it found into a collection
\* that already held other links.
C12_Witness ==
    /\ last.op = "batch"
    /\ last.saved
    /\ FoundBy(last) # {}
    /\ LinkKeys(links) \ FoundBy(last) # {}

\* The links of a collection that have no resolution.
Unresolved(l) == {k \in LinkKeys(l) : l.val[k] = None}

\* C13: the links that a downloader run attempts are among the first
\* `flag` links without a resolution in the run data file the run loaded
\* (among all of them when the flag is 0); a link that had a resolution is
\* not attempted and keeps that resolution.
C13_OnlyUnresolvedAttempted ==
    [][(last' # last /\ last'.op = "download") =>
          /\ last'.tried \subseteq last'.batch
          /\ last'.batch \subseteq Unresolved(links)
          /\ last'.flag # 0 => Cardinality(last'.batch) <= last'.flag
          /\ (last'.flag = 0 /\ links.kind # "list") => last'.batch = Unresolved(links)
          /\ \A k \in LinkKeys(links) \ Unresolved(links) :
                /\ k \notin last'.tried
                /\ k \notin DOMAIN last'.got
                /\ links'.val[k] = links.val[k]]_vars

\* C13 witness: a downloader run attempted a link while another link had
\* its resolution from an earlier run.
C13_Witness ==
    /\ last.op = "download"
    /\ last.tried # {}
    /\ \E k \in LinkKeys(links) : links.val[k] # None /\ k \notin DOMAIN last.got

\* C14: in the run data file, the resolution of a link is the path
\* solutions/<problems[id]>/problem_<id in three digits>.md, id being the
\* trailing path segment of the link, and the file of that path has been
\* written.
C14_ResolutionNamesArtifact ==
    \A k \in LinkKeys(links) :
        links.val[k] # None =>
            /\ IsInt(PathTail(k))
            /\ IntOf(PathTail(k)) \in DOMAIN problems
            /\ links.val[k][1] = <<"solutions", "/">> \o problems[IntOf(PathTail(k))]
                                    \o <<"/", "problem_">> \o Pad3(IntOf(PathTail(k))) \o <<".md">>
            /\ links.val[k][1] \in files

\* C14 witness: the run data file holds a resolution that the last
\* downloader run recorded.
C14_Witness ==
    /\ last.op = "download"
    /\ last.saved
    /\ \E k \in DOMAIN last.got : links.val[k] = last.got[k]

\* C15: message 1 has the subject "Problem #1 [Hard]" and a text with the
\* link U2, of the shape host/solution?x=1&token=abc.  Once a batch run
\* has stored the subject, the problem and the link, a downloader run that
\* comes to the link writes solutions/Hard/problem_001.md and stores that
\* path as the resolution of the link.
C15_EndToEnd ==
    [][(/\ last' # last
        /\ last'.op = "download"
        /\ emails[1] = MailSubject(1)
        /\ 1 \in DOMAIN problems
        /\ problems[1] = <<"Hard">>
        /\ <<"U2">> \in last'.tried) =>
          /\ links'.val[<<"U2">>] =
                 Some(<<"solutions", "/", "Hard", "/", "problem_", "0", "0", "1", ".md">>)
          /\ <<"solutions", "/", "Hard", "/", "problem_", "0", "0", "1", ".md">> \in files']_vars

\* The first place of s where a "#" stands right before a digit.
HashPlace(s) ==
    CHOOSE i \in 1..(Len(s) - 1) :
        /\ s[i] = "#" /\ s[i + 1] \in Digits
        /\ \A j \in 1..(i - 1) : ~(s[j] = "#" /\ s[j + 1] \in Digits)

\* The digits of s from place i on, up to the first token that is no digit.
RECURSIVE DigitsFrom(_, _)
DigitsFrom(s, i) ==
    IF i > Len(s) \/ s[i] \notin Digits THEN <<>> ELSE <<s[i]>> \o DigitsFrom(s, i + 1)

\* The places of the brackets that hold a tag: a "[" and a later "]" with
\* at least one token between them.
TagPlaces(s) ==
    {pq \in (1..Len(s)) \X (1..Len(s)) :
        s[pq[1]] = "[" /\ s[pq[2]] = "]" /\ pq[2] >= pq[1] + 2}

\* C16: a fetched subject with a "#" followed by digits yields a problem
\* entry with the integer of those digits; when the entry is new its
\* difficulty is the text of the bracketed tag of the subject, or Easy when
\* the subject has no bracketed tag; a stored entry is left as it is; a
\* subject without "#" followed by digits, an empty or a missing subject
\* yields no entry.
C16_SubjectParsed ==
    [][(last.op = "fetched" /\ last'.op = "collected") =>
          LET sub == last.got[1]
              s == sub[1]
          IN IF sub = None \/ ~(\E i \in 1..(Len(s) - 1) : s[i] = "#" /\ s[i + 1] \in Digits)
             THEN problems' = problems
             ELSE LET pid == IntOf(DigitsFrom(s, HashPlace(s) + 1))
                  IN /\ DOMAIN problems' = DOMAIN problems \cup {pid}
                     /\ \A p \in DOMAIN problems : problems'[p] = problems[p]
                     /\ (pid \notin DOMAIN problems /\ TagPlaces(s) = {}) =>
                            problems'[pid] = <<"Easy">>
                     /\ (/\ pid \notin DOMAIN problems
                         /\ TagPlaces(s) # {}
                         /\ Cardinality({i \in 1..Len(s) : s[i] \in {"[", "]"}}) = 2) =>
                            \A pq \in TagPlaces(s) :
                                problems'[pid] = SubSeq(s, pq[1] + 1, pq[2] - 1)]_vars

\* C16 witness: a subject with a number and a tag gave a new entry while
\* another entry was stored.
C16_Witness ==
    /\ last.op = "collected"
    /\ last.got[1] = Some(<<"#", "2", "[", "Hard", "]">>)
    /\ DOMAIN problems = {1, 2}

\* C17: every difficulty in the problems map is one of Easy, Medium and
\* Hard, whatever text the brackets of the fetched subjects hold.
C17_DifficultyClosedSet ==
    \A p \in DOMAIN problems : problems[p] \in {<<"Easy">>, <<"Medium">>, <<"Hard">>}

\* The links of the run data file that have a resolution.
Resolved(l) == LinkKeys(l) \ Unresolved(l)

C19_LaterSaveOverwrites ==
    [][/\ (inflight.bp = None /\ inflight'.bp # None) =>
              inflight'.bp[1] = [emails |-> emails, links |-> links, problems |-> problems]
       /\ (inflight.dl = None /\ inflight'.dl # None) =>
              inflight'.dl[1] = [emails |-> emails, links |-> links, problems |-> problems]
       /\ (inflight.dl # None /\ inflight'.dl = None /\ last'.saved) =>
              /\ emails' = inflight.dl[1].emails
              /\ problems' = inflight.dl[1].problems
              /\ LinkKeys(links') = LinkKeys(inflight.dl[1].links)
              /\ \A k \in LinkKeys(links') \ DOMAIN last'.got :
                    links'.val[k] = inflight.dl[1].links.val[k]
       /\ (inflight.bp # None /\ inflight'.bp = None /\ last'.saved) =>
              /\ DOMAIN emails' = DOMAIN inflight.bp[1].emails
              /\ \A i \in DOMAIN emails' \ DOMAIN last'.got :
                    emails'[i] = inflight.bp[1].emails[i]
              /\ \A q \in DOMAIN problems' :
                    \/ q \in DOMAIN inflight.bp[1].problems /\ problems'[q] = inflight.bp[1].problems[q]
                    \/ q \notin DOMAIN inflight.bp[1].problems /\ Carriers(last'.got, q) # {}
              /\ LinkKeys(links') = LinkKeys(inflight.bp[1].links) \cup FoundBy(last')
              /\ \A k \in Resolved(links') :
                    k \in LinkKeys(inflight.bp[1].links) /\ links'.val[k] = inflight.bp[1].links.val[k]
       /\ ((inflight.bp # None /\ inflight'.bp = None) \/ (inflight.dl # None /\ inflight'.dl = None)) =>
              (~last'.saved => Persisted' = Persisted)]_vars

\* C19 witness: a downloader run has saved the copy it had loaded before
\* a batch run saved the file, after that batch run had ended.
C19_Witness ==
    /\ inflight.stale
    /\ last.op = "download"
    /\ last.saved
    /\ inflight.bp = None

\* C20: the items that a batch run fetches are the first min(flag, n) of
\* the n items that have no subject in the run data file, in the order of
\* the dict (all n when the flag is 0), fetches that fail included; an
\* item that has a subject in the file is not fetched.
C20_FirstAbsentFetched ==
    [][(last' # last /\ last'.op = "batch") =>
          LET absent == Ascending({i \in DOMAIN emails : emails[i] = None})
              limit == IF last'.flag = 0 THEN Len(absent) ELSE last'.flag
          IN /\ last'.batch = Range(Take(absent, limit))
             /\ \A i \in last'.batch : emails[i] = None]_vars

Responses(w) == [k \in 1..Len(w.calls) |-> search_messages(w.calls[k].page_token)]

\* C22: the walk makes its first search call without a token; every later
\* call passes the token of the response right before it, with the query
\* and floor of the first call; the walk ends at the first response
\* without a token, having gone through every page, the empty ones
\* included; and it does end.
C22_TokenFollowed ==
    /\ [](walk.prog = "download_emails" =>
            /\ walk.calls # <<>> =>
                   /\ walk.calls[1].page_token = None
                   /\ walk.calls[1].after = lastRun
            /\ \A k \in 2..Len(walk.calls) :
                   /\ Responses(walk)[k - 1].next_page_token # None
                   /\ walk.calls[k].page_token = Responses(walk)[k - 1].next_page_token
                   /\ walk.calls[k].after = walk.calls[1].after
            /\ walk.pc = "done" =>
                   /\ Responses(walk)[Len(walk.calls)].next_page_token = None
                   /\ Len(walk.calls) = Len(search)
                   /\ walk.collected = AllIds(search, Len(search)))
    /\ (walk.prog = "download_emails" ~> walk.pc = "done")

\* C22 witness: a walk has ended after a page that had a token and no
\* identifiers.
C22_Witness ==
    /\ walk.prog = "download_emails"
    /\ walk.pc = "done"
    /\ \E k \in 1..(Len(search) - 1) : search[k] = 0
    /\ Len(walk.calls) = 3

\* C23: under repeated batch processor passes with a fixed limit of at
\* least 1, on a mailbox without new messages in which no message that can
\* be fetched has an empty subject, every item whose fetch succeeds when it
\* is attempted eventually has its subject in the run data file, also when
\* the fetch of other items fails at every attempt.  What a pass does is
\* fixed by the file, the flag and the outcomes of the fetches, so a pass
\* that leaves the file as it was is followed by the same pass for ever:
\* no pass may leave the file as it was while such an item has no subject.
C23_SucceedingItemsProcessed ==
    [][(/\ last' # last
        /\ last'.op = "batch"
        /\ \A j \in Items : fate.fetch[j] = "ok" => ~Falsy(MailSubject(j))
        /\ Persisted' = Persisted) =>
          \A i \in Items : fate.fetch[i] = "ok" => ~Falsy(emails[i])]_vars

\* A link that a downloader pass can resolve when it comes to it: its
\* problem id is in problems, it has a token and the content API answers
\* with JSON.
Resolvable(k) ==
    /\ IsInt(PathTail(k))
    /\ get_problem_number(k) \in DOMAIN problems
    /\ HasToken(k)
    /\ fate.api[k] = "json"

\* C24: under repeated downloader passes with a fixed limit of at least 1,
\* on a file whose links all end in a problem number, every unresolved
\* link that can be resolved eventually has its resolution, also when
\* other links of the file can never be resolved (unknown problem id, no
\* token, an answer that is not JSON).  What a pass does is fixed by the
\* file, the flag and the answers of the content API, so a pass that
\* leaves the file as it was is followed by the same pass for ever: no
\* pass may leave the file as it was while such a link has no resolution.
C24_ResolvableLinksResolved ==
    [][(/\ last' # last
        /\ last'.op = "download"
        /\ \A k \in LinkKeys(links) : IsInt(PathTail(k))
        /\ Persisted' = Persisted) =>
          \A k \in LinkKeys(links) : Resolvable(k) => links.val[k] # None]_vars

\* C25: an item that a batch run fetched and whose result the run saved
\* is not among the unprocessed items that the next batch run selects,
\* whatever its subject is, the empty one included.
C25_FetchedNotReselected ==
    (last.op = "batch" /\ last.saved) =>
        \A i \in DOMAIN last.got : i \notin Range(NewEmails(emails))

\* C26: when a downloader run stops at a link whose problem id is not in
\* problems, every link it came to before that one has, in the file the
\* run leaves, the path of the artifact written for it, and the run has
\* saved the file if there is such a link.
C26_BreakKeepsResolutions ==
    [][(last' # last /\ last'.op = "download" /\ last'.end = "break") =>
          LET before == {k \in last'.tried : get_problem_number(k) \in DOMAIN problems}
          IN /\ Cardinality(last'.tried \ before) = 1
             /\ \A k \in before :
                    /\ links.val[k] = None
                    /\ links'.val[k] = Some(FilePath(get_problem_number(k),
                                                     problems[get_problem_number(k)]))
                    /\ links'.val[k][1] \in files'
             /\ before # {} => last'.saved
             /\ \A k \in last'.tried \ before : links'.val[k] = None]_vars

\* C26 witness: a downloader run resolved two links and then stopped at a
\* link with an unknown problem id.
C26_Witness ==
    /\ last.op = "download"
    /\ last.end = "break"
    /\ last.saved
    /\ Cardinality(DOMAIN last.got) = 2

\* C27: the floor that a walk run writes is the clock value read when the
\* run started; the floor never decreases, and a run that does not write
\* it leaves it; and the run that writes a floor has stored every message
\* that arrived before that floor and not before the floor it searched
\* from (every message, when there was none).  So, run after run, every
\* message of the mailbox either was returned by a completed walk or
\* arrived not before the stored floor.
C27_FloorIsRunStart ==
    [][(last' # last /\ last'.op = "walk") =>
          /\ lastRun' >= lastRun
          /\ ~last'.saved => lastRun' = lastRun
          /\ last'.saved =>
                /\ lastRun' = clock
                /\ \A i \in Items :
                      (Arrival(i) < lastRun' /\ (lastRun = 0 \/ Arrival(i) >= lastRun)) =>
                          i \in Range(emailFile')]_vars

\* C27 witness: a walk that took two seconds has written its floor, and a
\* message arrived while it ran, after the search was answered.
C27_Witness ==
    /\ last.op = "walk"
    /\ last.saved
    /\ clock = lastRun + 2
    /\ \E i \in Items :
          /\ Arrival(i) > lastRun
          /\ Arrival(i) < clock
          /\ i \notin Range(emailFile)

\* C28: a pass at its fixpoint does nothing.  A Batch Processor pass that
\* starts when every item has been fetched (no subject is None) fetches no
\* content and leaves the state file as it was; a Downloader pass that
\* starts when every link has a value asks the content API for nothing,
\* writes no file and leaves the state file as it was.
C28_FixpointIsNoOp ==
    [][(last' # last /\ last'.op \in {"batch", "download"}) =>
          /\ (last'.op = "batch" /\ \A i \in DOMAIN emails : emails[i] # None) =>
                /\ last'.batch = {}
                /\ ~last'.saved
                /\ Persisted' = Persisted
          /\ (last'.op = "download" /\ \A k \in LinkKeys(links) : links.val[k] # None) =>
                /\ last'.tried = {}
                /\ files' = files
                /\ ~last'.saved
                /\ Persisted' = Persisted]_vars

\* C29: a Downloader pass that runs to its end leaves the items, the
\* problems and the floor as they were, adds and removes no link key, and
\* changes no link value other than those of the links it resolved.
C29_DownloaderFrame ==
    [][(last' # last /\ last'.op = "download" /\ last'.kill = "no") =>
          /\ emails' = emails
          /\ problems' = problems
          /\ lastRun' = lastRun
          /\ links'.order = links.order
          /\ \A k \in LinkKeys(links) :
                k \notin DOMAIN last'.got => links'.val[k] = links.val[k]]_vars

\* C29 witness: a pass has resolved a link and stored the result while
\* another link of the file was outside what it resolved.
C29_Witness ==
    /\ last.op = "download"
    /\ last.kill = "no"
    /\ last.saved
    /\ last.got # <<>>
    /\ \E k \in LinkKeys(links) : k \notin DOMAIN last.got

\* C30: get_emails, in download.py and in download_dcp.py, goes through
\* the whole listing.  For a listing whose pages each hold an identifier:
\* a page is requested only when every identifier collected before has
\* been yielded, and the generator that has ended has yielded every
\* identifier of every page in page order, has requested every page, and
\* holds no continuation token.
C30_GeneratorYieldsAll ==
    (walk.prog \in Generators /\ \A k \in 1..Len(search) : search[k] > 0) =>
        /\ (walk.pc = "iter" /\ Len(walk.calls) > 1) =>
              Len(walk.yielded) >= SumSizes(search, Len(walk.calls) - 1)
        /\ walk.pc = "done" =>
              /\ walk.yielded = AllIds(search, Len(search))
              /\ Len(walk.calls) = Len(search)
              /\ walk.next_page_token = None

====
